---------------------------- MODULE Spec2Model ----------------------------
(***************************************************************************)
(* Feature extraction for negation-cue detection (feature_extraction.py). *)
(*                                                                         *)
(* A Python str is a sequence of one-character strings, so that endswith,  *)
(* startswith, replace, len and indexing are computed character by         *)
(* character.  The integer-or-'' cells of has_affix and base_is_word are   *)
(* held by their written form: "0", "1" and "".  Cells that are only       *)
(* copied or compared whole (book, sent_num, token_num, gold_label, the    *)
(* category names) are plain strings.                                      *)
(*                                                                         *)
(* Each function of the file can be called on its own; entry names the     *)
(* function the run started in.  A for loop is one action per iteration.   *)
(***************************************************************************)
EXTENDS Integers, Sequences, FiniteSets, TLC

VARIABLES
    entry,              \* the function this run was started in
    pc,                 \* the statement control is at
    (* extract_previous_and_next *)
    elements, position_index, prev_tokens, next_tokens, bos_previous, eos_next,
    (* generate_pos_category *)
    pos_tags, pos_index, pos_list,
    (* get_affixal_and_base_features *)
    lemmas, neg_prefix, neg_suffix, vocab,
    has_affix, affix, base_is_word, base,
    lemma_index, lemma, suffix_left, prefix_left,
    has_affix_val, affix_val, base_is_word_val, base_val,
    (* write_features *)
    input_data, stage, features_dict, output,
    (* main, started a second time on the same input *)
    run, first_run

extractVars == <<elements, position_index, prev_tokens, next_tokens,
                 bos_previous, eos_next>>
posVars     == <<pos_tags, pos_index, pos_list>>
affixArgs   == <<lemmas, neg_prefix, neg_suffix, vocab>>
affixLists  == <<has_affix, affix, base_is_word, base>>
affixLocals == <<lemma_index, lemma, suffix_left, prefix_left,
                 has_affix_val, affix_val, base_is_word_val, base_val>>
affixVars   == <<affixArgs, affixLists, affixLocals>>
writeVars   == <<input_data, stage, features_dict, output>>
runVars     == <<run, first_run>>
vars == <<entry, pc, extractVars, posVars, affixVars, writeVars, runVars>>

---------------------------------------------------------------------------
(* Bounds of the model.                                                    *)
MaxLen  == 4    \* longest `elements` given to extract_previous_and_next
MaxTags == 2    \* longest `pos_tags` given to generate_pos_category
MaxMid  == 4    \* longest middle part of a lemma given to the affix analysis
MaxRows == 3    \* most rows of a table given to write_features

---------------------------------------------------------------------------
(* Strings.                                                                *)
EmptyStr == <<>>
bos == <<"b", "o", "s">>
eos == <<"e", "o", "s">>

\* str.endswith(suffix)
EndsWith(s, suf) ==
    /\ Len(suf) <= Len(s)
    /\ SubSeq(s, Len(s) - Len(suf) + 1, Len(s)) = suf

\* str.startswith(prefix)
StartsWith(s, pre) ==
    /\ Len(pre) <= Len(s)
    /\ SubSeq(s, 1, Len(pre)) = pre

\* s[n:]
DropFirst(s, n) == SubSeq(s, n + 1, Len(s))

\* str.replace(old, ""): every non-overlapping occurrence of old, found from
\* the left, is removed (old is not empty).
RECURSIVE ReplaceAll(_, _)
ReplaceAll(s, old) ==
    IF Len(s) < Len(old) THEN s
    ELSE IF StartsWith(s, old) THEN ReplaceAll(DropFirst(s, Len(old)), old)
    ELSE <<Head(s)>> \o ReplaceAll(Tail(s), old)

\* str.replace(old, "", 1): only the leftmost occurrence of old is removed.
RECURSIVE ReplaceFirst(_, _)
ReplaceFirst(s, old) ==
    IF Len(s) < Len(old) THEN s
    ELSE IF StartsWith(s, old) THEN DropFirst(s, Len(old))
    ELSE <<Head(s)>> \o ReplaceFirst(Tail(s), old)

\* str.lower() on the letters the model's tables use
LowerChar(c) ==
    CASE c = "U" -> "u"
      [] c = "L" -> "l"
      [] OTHER   -> c

Lower(s) == [k \in 1..Len(s) |-> LowerChar(s[k])]

\* All sequences over S of length 0..n
RECURSIVE SeqsUpTo(_, _)
SeqsUpTo(S, n) ==
    IF n = 0 THEN {<<>>}
    ELSE LET shorter == SeqsUpTo(S, n - 1)
         IN shorter \cup {Append(q, x) : q \in {r \in shorter : Len(r) = n - 1}, x \in S}

---------------------------------------------------------------------------
(* extract_previous_and_next                                               *)

\* The "previous token" half of one iteration: the value for this row is
\* appended, and after a blank row the entry appended for that blank row is
\* overwritten with ''.
previous_token_branch(elems, pos, prevs, bos_prev) ==
    LET prev_index == pos - 1 IN
    IF prev_index < 0
    THEN [prev_tokens |-> Append(prevs, bos), bos_previous |-> bos_prev]
    ELSE LET before   == elems[prev_index + 1]
             boundary == before = EmptyStr
             previous_token == IF boundary THEN bos ELSE before
             flag     == bos_prev \/ boundary
             patched  == IF flag THEN [prevs EXCEPT ![pos] = EmptyStr] ELSE prevs
         IN [prev_tokens  |-> Append(patched, previous_token),
             bos_previous |-> IF flag THEN FALSE ELSE bos_prev]

\* next_token_branch with `eos_next = False` left out after the empty string
\* is emitted for an empty row.
next_token_branch_flag_kept(elems, pos, eos_nxt) ==
    LET next_index == pos + 1 IN
    IF eos_nxt
    THEN [next_token |-> EmptyStr, eos_next |-> eos_nxt]
    ELSE IF next_index < Len(elems)
    THEN LET after == elems[next_index + 1]
         IN IF after = EmptyStr
            THEN [next_token |-> eos, eos_next |-> TRUE]
            ELSE [next_token |-> after, eos_next |-> eos_nxt]
    ELSE [next_token |-> eos, eos_next |-> eos_nxt]

\* The "next token" half of one iteration.
next_token_branch(elems, pos, eos_nxt) ==
    LET next_index == pos + 1 IN
    IF eos_nxt
    THEN [next_token |-> EmptyStr, eos_next |-> FALSE]
    ELSE IF next_index < Len(elems)
    THEN LET after == elems[next_index + 1]
         IN IF after = EmptyStr
            THEN [next_token |-> eos, eos_next |-> TRUE]
            ELSE [next_token |-> after, eos_next |-> eos_nxt]
    ELSE [next_token |-> eos, eos_next |-> eos_nxt]

\* The call: the locals before the loop.
ExtractCall(elems) ==
    /\ elements' = elems
    /\ position_index' = 0
    /\ prev_tokens' = <<>>
    /\ next_tokens' = <<>>
    /\ bos_previous' = FALSE
    /\ eos_next' = FALSE

\* One iteration of `for i in range(len(elements))`.
ExtractStep ==
    /\ pc = "extract"
    /\ position_index < Len(elements)
    /\ LET p == previous_token_branch(elements, position_index, prev_tokens, bos_previous)
           n == next_token_branch(elements, position_index, eos_next)
       IN /\ prev_tokens' = p.prev_tokens
          /\ bos_previous' = p.bos_previous
          /\ next_tokens' = Append(next_tokens, n.next_token)
          /\ eos_next' = n.eos_next
    /\ position_index' = position_index + 1
    /\ UNCHANGED <<entry, pc, elements, posVars, affixVars, writeVars, runVars>>

\* The loop is over: the function is about to return its two lists.
ExtractFinished == pc = "extract" /\ position_index = Len(elements)

ExtractReturn ==
    /\ entry = "extract_previous_and_next"
    /\ ExtractFinished
    /\ pc' = "done"
    /\ UNCHANGED <<entry, extractVars, posVars, affixVars, writeVars, runVars>>

---------------------------------------------------------------------------
(* generate_pos_category                                                   *)
adj == {<<"J","J">>, <<"J","J","R">>, <<"J","J","S">>}
nn  == {<<"N","N">>, <<"N","N","S">>, <<"N","N","P">>, <<"N","N","P","S">>}
adv == {<<"R","B">>, <<"R","B","R">>, <<"R","B","S">>}
vb  == {<<"V","B">>, <<"V","B","D">>, <<"V","B","G">>, <<"V","B","N">>,
        <<"V","B","P">>, <<"V","B","Z">>}
pro == {<<"P","R","P">>, <<"P","R","P","$">>}

\* The grave accent cannot be written inside a string of this language; this
\* atom stands for that one character.
grave == "GRAVE"

\* string.punctuation
punctuation ==
    {"!", "\"", "#", "$", "%", "&", "'", "(", ")", "*", "+", ",", "-", ".",
     "/", ":", ";", "<", "=", ">", "?", "@", "[", "\\", "]", "^", "_", grave,
     "{", "|", "}", "~"}

\* pos_category_branch without its final `else`: a tag no rule names gets no
\* entry.
pos_category_branch_no_else(list, pos_tag) ==
    IF pos_tag = EmptyStr THEN Append(list, "")
    ELSE IF pos_tag \in adj THEN Append(list, "ADJ")
    ELSE IF pos_tag \in nn THEN Append(list, "NN")
    ELSE IF pos_tag \in adv THEN Append(list, "ADV")
    ELSE IF pos_tag \in pro THEN Append(list, "PRO")
    ELSE IF pos_tag \in vb THEN Append(list, "VERB")
    ELSE IF pos_tag[1] \in punctuation THEN Append(list, "PUNCT")
    ELSE list

\* pos_category_branch with the punctuation test on the last character of
\* the tag, pos_tag[-1], instead of the first.
pos_category_branch_last_char(list, pos_tag) ==
    IF pos_tag = EmptyStr THEN Append(list, "")
    ELSE IF pos_tag \in adj THEN Append(list, "ADJ")
    ELSE IF pos_tag \in nn THEN Append(list, "NN")
    ELSE IF pos_tag \in adv THEN Append(list, "ADV")
    ELSE IF pos_tag \in pro THEN Append(list, "PRO")
    ELSE IF pos_tag \in vb THEN Append(list, "VERB")
    ELSE IF pos_tag[Len(pos_tag)] \in punctuation THEN Append(list, "PUNCT")
    ELSE Append(list, "OTH")

\* The if/elif chain of the loop body: the list with this tag's category
\* appended.
pos_category_branch(list, pos_tag) ==
    IF pos_tag = EmptyStr THEN Append(list, "")
    ELSE IF pos_tag \in adj THEN Append(list, "ADJ")
    ELSE IF pos_tag \in nn THEN Append(list, "NN")
    ELSE IF pos_tag \in adv THEN Append(list, "ADV")
    ELSE IF pos_tag \in pro THEN Append(list, "PRO")
    ELSE IF pos_tag \in vb THEN Append(list, "VERB")
    ELSE IF pos_tag[1] \in punctuation THEN Append(list, "PUNCT")
    ELSE Append(list, "OTH")

PosCall(tags) ==
    /\ pos_tags' = tags
    /\ pos_index' = 0
    /\ pos_list' = <<>>

\* One iteration of `for pos_tag in pos_tags`.
PosStep ==
    /\ pc = "pos"
    /\ pos_index < Len(pos_tags)
    /\ pos_list' = pos_category_branch(pos_list, pos_tags[pos_index + 1])
    /\ pos_index' = pos_index + 1
    /\ UNCHANGED <<entry, pc, pos_tags, extractVars, affixVars, writeVars, runVars>>

PosFinished == pc = "pos" /\ pos_index = Len(pos_tags)

PosReturn ==
    /\ entry = "generate_pos_category"
    /\ PosFinished
    /\ pc' = "done"
    /\ UNCHANGED <<entry, extractVars, posVars, affixVars, writeVars, runVars>>

---------------------------------------------------------------------------
(* get_affixal_and_base_features                                           *)
SuffixStemOver == 2     \* len(base_lemma) > 2
PrefixStemOver == 3     \* len(base_lemma) > 3

\* The values of the four features of the lemma being analysed, and whether
\* the loop body ended in `break`.
Vals == [has_affix_val |-> has_affix_val, affix_val |-> affix_val,
         base_is_word_val |-> base_is_word_val, base_val |-> base_val,
         brk |-> FALSE]

\* suffix_branch with `break` one level out, under `if lemma.endswith(suffix)`:
\* the scan ends at the first suffix the lemma ends with, whatever the
\* length of the stem.
suffix_branch_break_on_match(lem, suf, voc, vals) ==
    IF EndsWith(lem, suf)
    THEN LET base_lemma == ReplaceAll(lem, suf) IN
         IF Len(base_lemma) > SuffixStemOver
         THEN [has_affix_val    |-> "1",
               affix_val        |-> suf,
               base_is_word_val |-> IF base_lemma \in voc THEN "1"
                                    ELSE vals.base_is_word_val,
               base_val         |-> IF base_lemma \in voc THEN base_lemma
                                    ELSE vals.base_val,
               brk              |-> TRUE]
         ELSE [vals EXCEPT !.brk = TRUE]
    ELSE vals

\* suffix_branch with `break` two levels out, in the body of the for loop:
\* only the suffix visited first is looked at.
suffix_branch_break_always(lem, suf, voc, vals) ==
    IF EndsWith(lem, suf)
    THEN LET base_lemma == ReplaceAll(lem, suf) IN
         IF Len(base_lemma) > SuffixStemOver
         THEN [has_affix_val    |-> "1",
               affix_val        |-> suf,
               base_is_word_val |-> IF base_lemma \in voc THEN "1"
                                    ELSE vals.base_is_word_val,
               base_val         |-> IF base_lemma \in voc THEN base_lemma
                                    ELSE vals.base_val,
               brk              |-> TRUE]
         ELSE [vals EXCEPT !.brk = TRUE]
    ELSE [vals EXCEPT !.brk = TRUE]

\* The body of `for suffix in neg_suffix`, on one member of the set.
suffix_branch(lem, suf, voc, vals) ==
    IF EndsWith(lem, suf)
    THEN LET base_lemma == ReplaceAll(lem, suf) IN
         IF Len(base_lemma) > SuffixStemOver
         THEN [has_affix_val    |-> "1",
               affix_val        |-> suf,
               base_is_word_val |-> IF base_lemma \in voc THEN "1"
                                    ELSE vals.base_is_word_val,
               base_val         |-> IF base_lemma \in voc THEN base_lemma
                                    ELSE vals.base_val,
               brk              |-> TRUE]
         ELSE vals
    ELSE vals

\* The body of `for prefix in neg_prefix`, on one member of the set.
prefix_branch(lem, pre, voc, vals) ==
    IF StartsWith(lem, pre)
    THEN LET base_lemma == ReplaceFirst(lem, pre) IN
         IF Len(base_lemma) > PrefixStemOver
         THEN [has_affix_val    |-> "1",
               affix_val        |-> pre,
               base_is_word_val |-> IF base_lemma \in voc THEN "1"
                                    ELSE vals.base_is_word_val,
               base_val         |-> IF base_lemma \in voc THEN base_lemma
                                    ELSE vals.base_val,
               brk              |-> TRUE]
         ELSE vals
    ELSE vals

SetVals(r) ==
    /\ has_affix_val' = r.has_affix_val
    /\ affix_val' = r.affix_val
    /\ base_is_word_val' = r.base_is_word_val
    /\ base_val' = r.base_val

\* The call: the arguments, and the four empty lists.
AffixCall(ls, pre, suf, voc) ==
    /\ lemmas' = ls
    /\ neg_prefix' = pre
    /\ neg_suffix' = suf
    /\ vocab' = voc
    /\ has_affix' = <<>>
    /\ affix' = <<>>
    /\ base_is_word' = <<>>
    /\ base' = <<>>
    /\ lemma_index' = 0
    /\ lemma' = EmptyStr
    /\ suffix_left' = {}
    /\ prefix_left' = {}
    /\ has_affix_val' = ""
    /\ affix_val' = EmptyStr
    /\ base_is_word_val' = ""
    /\ base_val' = EmptyStr

\* `for lemma in lemmas` takes the next lemma and gives the four values their
\* start: '' on an empty line, otherwise 0, "", 0, "".  suffix_left and
\* prefix_left are the members the two scans of this lemma have not visited.
LemmaStart ==
    /\ pc = "for_lemma"
    /\ lemma_index < Len(lemmas)
    /\ lemma' = lemmas[lemma_index + 1]
    /\ lemma_index' = lemma_index + 1
    /\ suffix_left' = neg_suffix
    /\ prefix_left' = neg_prefix
    /\ affix_val' = EmptyStr
    /\ base_val' = EmptyStr
    /\ IF lemma' = EmptyStr
       THEN /\ has_affix_val' = ""
            /\ base_is_word_val' = ""
            /\ pc' = "append"
       ELSE /\ has_affix_val' = "0"
            /\ base_is_word_val' = "0"
            /\ pc' = "for_suffix"
    /\ UNCHANGED <<entry, affixArgs, affixLists, extractVars, posVars, writeVars, runVars>>

\* One iteration of `for suffix in neg_suffix`: a set is visited in an order
\* the program does not choose, so any member not yet visited may come next.
\* (Within one call Python visits an unchanged set in the same order for
\* every lemma; here each lemma's scan draws its order afresh, which
\* includes every order a call can take.)
SuffixStep ==
    /\ pc = "for_suffix"
    /\ \E s \in suffix_left :
          LET r == suffix_branch(lemma, s, vocab, Vals)
          IN /\ SetVals(r)
             /\ suffix_left' = suffix_left \ {s}
             /\ pc' = IF r.brk THEN "if_not_has_affix" ELSE "for_suffix"
    /\ UNCHANGED <<entry, affixArgs, affixLists, lemma_index, lemma,
                   prefix_left, extractVars, posVars, writeVars, runVars>>

\* The suffix set is exhausted without a break.
SuffixEnd ==
    /\ pc = "for_suffix"
    /\ suffix_left = {}
    /\ pc' = "if_not_has_affix"
    /\ UNCHANGED <<entry, affixVars, extractVars, posVars, writeVars, runVars>>

\* `if not has_affix_val`
IfNotHasAffix ==
    /\ pc = "if_not_has_affix"
    /\ pc' = IF has_affix_val = "0" THEN "for_prefix" ELSE "append"
    /\ UNCHANGED <<entry, affixVars, extractVars, posVars, writeVars, runVars>>

\* One iteration of `for prefix in neg_prefix`.
PrefixStep ==
    /\ pc = "for_prefix"
    /\ \E p \in prefix_left :
          LET r == prefix_branch(lemma, p, vocab, Vals)
          IN /\ SetVals(r)
             /\ prefix_left' = prefix_left \ {p}
             /\ pc' = IF r.brk THEN "append" ELSE "for_prefix"
    /\ UNCHANGED <<entry, affixArgs, affixLists, lemma_index, lemma,
                   suffix_left, extractVars, posVars, writeVars, runVars>>

\* The prefix set is exhausted without a break.
PrefixEnd ==
    /\ pc = "for_prefix"
    /\ prefix_left = {}
    /\ pc' = "append"
    /\ UNCHANGED <<entry, affixVars, extractVars, posVars, writeVars, runVars>>

\* The four appends that end the body of `for lemma in lemmas`.
AppendVals ==
    /\ pc = "append"
    /\ has_affix' = Append(has_affix, has_affix_val)
    /\ affix' = Append(affix, affix_val)
    /\ base_is_word' = Append(base_is_word, base_is_word_val)
    /\ base' = Append(base, base_val)
    /\ pc' = "for_lemma"
    /\ UNCHANGED <<entry, affixArgs, affixLocals, extractVars, posVars, writeVars, runVars>>

AffixFinished == pc = "for_lemma" /\ lemma_index = Len(lemmas)

AffixReturn ==
    /\ entry = "get_affixal_and_base_features"
    /\ AffixFinished
    /\ pc' = "done"
    /\ UNCHANGED <<entry, extractVars, posVars, affixVars, writeVars, runVars>>

---------------------------------------------------------------------------
(* write_features                                                          *)
feature_names ==
    {"book", "sent_num", "token_num", "token", "lemma", "pos_tag",
     "pos_category", "prev_token", "next_token", "prev_lemma", "next_lemma",
     "has_affix", "affix", "base_is_word", "base", "gold_label"}

Column(table, name) == [k \in 1..Len(table) |-> table[k][name]]

LowerAll(column) == [k \in 1..Len(column) |-> Lower(column[k])]

\* The columns of the table that was read, tokens and lemmas in lower case;
\* the derived columns are filled in as the calls return.
read_columns(table) ==
    [book         |-> Column(table, "book"),
     sent_num     |-> Column(table, "sent_num"),
     token_num    |-> Column(table, "token_num"),
     token        |-> LowerAll(Column(table, "token")),
     lemma        |-> LowerAll(Column(table, "lemma")),
     pos_tag      |-> Column(table, "pos_tag"),
     gold_label   |-> Column(table, "gold_label"),
     pos_category |-> <<>>,
     prev_token   |-> <<>>,
     next_token   |-> <<>>,
     prev_lemma   |-> <<>>,
     next_lemma   |-> <<>>,
     has_affix    |-> <<>>,
     affix        |-> <<>>,
     base_is_word |-> <<>>,
     base         |-> <<>>]

\* pd.DataFrame(features_dict, columns=feature_names): one row per index of
\* the book column.
features_df(dict) ==
    [k \in 1..Len(dict.book) |-> [c \in feature_names |-> dict[c][k]]]

\* The constructor raises when a list is not as long as the index.
FrameAligned(dict) == \A c \in feature_names : Len(dict[c]) = Len(dict.book)

\* The line that is commented out in write_features: the frame is written
\* with its empty rows.
keep_empty_rows(frame) == frame

\* features_df[features_df['book'] != '']
drop_empty_rows(frame) == SelectSeq(frame, LAMBDA row : row.book # "")

\* The table is read, its columns are split, and
\* extract_previous_and_next(tokens) is called.
WriteStart ==
    /\ pc = "write_features"
    /\ features_dict' = read_columns(input_data)
    /\ ExtractCall(features_dict'.token)
    /\ stage' = "tokens"
    /\ pc' = "extract"
    /\ UNCHANGED <<entry, input_data, output, posVars, affixVars, runVars>>

\* prev_tokens, next_tokens are returned; generate_pos_category(pos_tags).
WriteAfterTokens ==
    /\ entry = "write_features" /\ stage = "tokens"
    /\ ExtractFinished
    /\ features_dict' = [features_dict EXCEPT !.prev_token = prev_tokens,
                                              !.next_token = next_tokens]
    /\ PosCall(features_dict.pos_tag)
    /\ stage' = "pos"
    /\ pc' = "pos"
    /\ UNCHANGED <<entry, input_data, output, extractVars, affixVars, runVars>>

\* pos_category is returned; extract_previous_and_next(lemmas).
WriteAfterPos ==
    /\ entry = "write_features" /\ stage = "pos"
    /\ PosFinished
    /\ features_dict' = [features_dict EXCEPT !.pos_category = pos_list]
    /\ ExtractCall(features_dict.lemma)
    /\ stage' = "lemmas"
    /\ pc' = "extract"
    /\ UNCHANGED <<entry, input_data, output, posVars, affixVars, runVars>>

\* prev_lemmas, next_lemmas are returned;
\* get_affixal_and_base_features(lemmas, neg_prefix, neg_suffix, vocab).
WriteAfterLemmas ==
    /\ entry = "write_features" /\ stage = "lemmas"
    /\ ExtractFinished
    /\ features_dict' = [features_dict EXCEPT !.prev_lemma = prev_tokens,
                                              !.next_lemma = next_tokens]
    /\ AffixCall(features_dict.lemma, neg_prefix, neg_suffix, vocab)
    /\ stage' = "affix"
    /\ pc' = "for_lemma"
    /\ UNCHANGED <<entry, input_data, output, extractVars, posVars, runVars>>

\* The four affix lists are returned and the data frame is built.
WriteAfterAffix ==
    /\ entry = "write_features" /\ stage = "affix"
    /\ AffixFinished
    /\ features_dict' = [features_dict EXCEPT !.has_affix = has_affix,
                                              !.affix = affix,
                                              !.base_is_word = base_is_word,
                                              !.base = base]
    /\ stage' = "frame"
    /\ pc' = IF FrameAligned(features_dict') THEN "to_csv" ELSE "raised"
    /\ UNCHANGED <<entry, input_data, output, extractVars, posVars, affixVars, runVars>>

\* The empty rows are dropped and the rest is written.
WriteOutput ==
    /\ pc = "to_csv"
    /\ output' = drop_empty_rows(features_df(features_dict))
    /\ stage' = "written"
    /\ pc' = "done"
    /\ UNCHANGED <<entry, input_data, features_dict, extractVars, posVars, affixVars, runVars>>

---------------------------------------------------------------------------
(* main                                                                    *)
dis  == <<"d", "i", "s">>
im   == <<"i", "m">>
in   == <<"i", "n">>
ir   == <<"i", "r">>
un   == <<"u", "n">>
non  == <<"n", "o", "n">>
less     == <<"l", "e", "s", "s">>
lessness == <<"l", "e", "s", "s", "n", "e", "s", "s">>
lessly   == <<"l", "e", "s", "s", "l", "y">>

main_neg_prefix == {dis, im, in, ir, un, non}
main_neg_suffix == {less, lessness, lessly}

\* What a run leaves behind: the returned lists, or the rows written.
Result ==
    IF entry = "write_features" THEN output
    ELSE <<has_affix, affix, base_is_word, base>>

\* The program is run a second time on the same input, with the same affix
\* sets and vocabulary.
Rerun ==
    /\ pc = "done"
    /\ run = 1
    /\ entry \in {"write_features", "get_affixal_and_base_features"}
    /\ run' = 2
    /\ first_run' = Result
    /\ pc' = IF entry = "write_features" THEN "write_features" ELSE "for_lemma"
    /\ AffixCall(IF entry = "write_features" THEN <<>> ELSE lemmas,
                 neg_prefix, neg_suffix, vocab)
    /\ ExtractCall(<<>>)
    /\ PosCall(<<>>)
    /\ stage' = "start"
    /\ features_dict' = read_columns(<<>>)
    /\ output' = <<>>
    /\ UNCHANGED <<entry, input_data>>

---------------------------------------------------------------------------
(* The inputs the runs are started on.                                     *)
w1 == <<"w", "1">>
w2 == <<"w", "2">>
w3 == <<"w", "3">>

\* Cells of a token or lemma column: '' is an empty line.
ElemValues == {EmptyStr, w1, w2, w3}

\* Cells of a POS tag column: every tag the function names, and tags it
\* does not name, with and without a punctuation character in front.
TagValues ==
    adj \cup nn \cup adv \cup vb \cup pro \cup
    {EmptyStr, <<".">>, <<",">>, <<":">>, <<"$">>, <<grave, grave>>,
     <<"'", "'">>, <<"-", "L", "R", "B", "-">>, <<"F", "W">>, <<"D", "T">>,
     <<"W", "P", "$">>, <<"J">>, <<"N", "N", "X">>}

\* Lemmas: an optional head, a middle of up to MaxMid letters, an optional
\* tail.  Heads and tails are affixes of main, so that a lemma can start
\* with a prefix, end with a suffix and hold a suffix twice.
MidValues == SeqsUpTo({"a", "e"}, MaxMid)
LemmaHeads == {EmptyStr, un, less}
LemmaTails == {EmptyStr, less, lessly}
LemmaValues == {h \o m \o t : h \in LemmaHeads, m \in MidValues, t \in LemmaTails}

use   == <<"u", "s", "e">>
happy == <<"h", "a", "p", "p", "y">>

\* Vocabularies: no word at all, or every middle part and two English words.
VocabValues == {{}, MidValues \cup {use, happy}}

\* Affix sets: those of main; sets in which one member is the end (the
\* start) of another; and an empty suffix set.
AffixSetValues ==
    {[prefixes |-> main_neg_prefix, suffixes |-> main_neg_suffix],
     [prefixes |-> {<<"u">>, un},   suffixes |-> {<<"s">>, less}],
     [prefixes |-> {un},            suffixes |-> {}]}

\* Rows of a preprocessed table; the first is an empty line.
RowValues ==
    {[book |-> "", sent_num |-> "", token_num |-> "", token |-> EmptyStr,
      lemma |-> EmptyStr, pos_tag |-> EmptyStr, gold_label |-> ""],
     [book |-> "wisteria01", sent_num |-> "0", token_num |-> "0",
      token |-> <<"U", "s", "e", "l", "e", "s", "s">>,
      lemma |-> <<"u", "s", "e", "l", "e", "s", "s">>,
      pos_tag |-> <<"J", "J">>, gold_label |-> "B-NEG"],
     [book |-> "wisteria01", sent_num |-> "0", token_num |-> "1",
      token |-> <<"U", "n", "h", "a", "p", "p", "y">>,
      lemma |-> <<"u", "n", "h", "a", "p", "p", "y">>,
      pos_tag |-> <<"J", "J">>, gold_label |-> "B-NEG"],
     [book |-> "wisteria01", sent_num |-> "0", token_num |-> "2",
      token |-> <<".">>, lemma |-> <<".">>,
      pos_tag |-> <<".">>, gold_label |-> "O"]}

\* read_csv raises on a file without a line, so a table has a row.
TableValues == SeqsUpTo(RowValues, MaxRows) \ {<<>>}

ExtractIdle ==
    /\ elements = <<>> /\ position_index = 0
    /\ prev_tokens = <<>> /\ next_tokens = <<>>
    /\ bos_previous = FALSE /\ eos_next = FALSE

PosIdle == pos_tags = <<>> /\ pos_index = 0 /\ pos_list = <<>>

AffixIdle(ls, pre, suf, voc) ==
    /\ lemmas = ls /\ neg_prefix = pre /\ neg_suffix = suf /\ vocab = voc
    /\ has_affix = <<>> /\ affix = <<>> /\ base_is_word = <<>> /\ base = <<>>
    /\ lemma_index = 0 /\ lemma = EmptyStr
    /\ suffix_left = {} /\ prefix_left = {}
    /\ has_affix_val = "" /\ affix_val = EmptyStr
    /\ base_is_word_val = "" /\ base_val = EmptyStr

WriteIdle(table) ==
    /\ input_data = table /\ stage = "start"
    /\ features_dict = read_columns(<<>>) /\ output = <<>>

InitExtract ==
    /\ entry = "extract_previous_and_next" /\ pc = "extract"
    /\ elements \in SeqsUpTo(ElemValues, MaxLen)
    /\ position_index = 0 /\ prev_tokens = <<>> /\ next_tokens = <<>>
    /\ bos_previous = FALSE /\ eos_next = FALSE
    /\ PosIdle /\ AffixIdle(<<>>, {}, {}, {}) /\ WriteIdle(<<>>)

InitPos ==
    /\ entry = "generate_pos_category" /\ pc = "pos"
    /\ pos_tags \in SeqsUpTo(TagValues, MaxTags)
    /\ pos_index = 0 /\ pos_list = <<>>
    /\ ExtractIdle /\ AffixIdle(<<>>, {}, {}, {}) /\ WriteIdle(<<>>)

\* The analysis is called on no lemma or on one; lists of several lemmas
\* are analysed inside write_features.
InitAffix ==
    /\ entry = "get_affixal_and_base_features" /\ pc = "for_lemma"
    /\ \E ls \in {<<>>} \cup {<<l>> : l \in LemmaValues},
          sets \in AffixSetValues, voc \in VocabValues :
          AffixIdle(ls, sets.prefixes, sets.suffixes, voc)
    /\ ExtractIdle /\ PosIdle /\ WriteIdle(<<>>)

\* main passes its own affix sets and the vocabulary it built.
InitWrite ==
    /\ entry = "write_features" /\ pc = "write_features"
    /\ \E table \in TableValues : WriteIdle(table)
    /\ \E voc \in VocabValues :
          AffixIdle(<<>>, main_neg_prefix, main_neg_suffix, voc)
    /\ ExtractIdle /\ PosIdle

Init ==
    /\ run = 1
    /\ first_run = <<>>
    /\ \/ InitExtract
       \/ InitPos
       \/ InitAffix
       \/ InitWrite

Next ==
    \/ ExtractStep
    \/ ExtractReturn
    \/ PosStep
    \/ PosReturn
    \/ LemmaStart
    \/ SuffixStep
    \/ SuffixEnd
    \/ IfNotHasAffix
    \/ PrefixStep
    \/ PrefixEnd
    \/ AppendVals
    \/ AffixReturn
    \/ WriteStart
    \/ WriteAfterTokens
    \/ WriteAfterPos
    \/ WriteAfterLemmas
    \/ WriteAfterAffix
    \/ WriteOutput
    \/ Rerun

Spec == Init /\ [][Next]_vars

---------------------------------------------------------------------------
(* Claims about extract_previous_and_next.                                 *)

Rows == 1..Len(elements)
BlankAt(i) == elements[i] = EmptyStr

\* The neighbour a row with a token is expected to see on either side.
ExpectedPrevious(i) ==
    IF i = 1 \/ elements[i - 1] = EmptyStr THEN bos ELSE elements[i - 1]
ExpectedNext(i) ==
    IF i = Len(elements) \/ elements[i + 1] = EmptyStr THEN eos ELSE elements[i + 1]

\* C1: when extract_previous_and_next has gone through its input, every row
\* that holds a token has "bos" as previous when it is the first row or
\* follows an empty row and the row before it otherwise, and "eos" as next
\* when it is the last row or precedes an empty row and the row after it
\* otherwise; ["w1","w2","","w3"] gives ["bos","w1","","bos"] and
\* ["w2","eos","","eos"].
C1_NeighboursOfTokens ==
    ExtractFinished =>
        /\ \A i \in Rows :
              ~BlankAt(i) => /\ prev_tokens[i] = ExpectedPrevious(i)
                             /\ next_tokens[i] = ExpectedNext(i)
        /\ elements = <<w1, w2, EmptyStr, w3>> =>
              /\ prev_tokens = <<bos, w1, EmptyStr, bos>>
              /\ next_tokens = <<w2, eos, EmptyStr, eos>>

C1_Witness ==
    /\ entry = "extract_previous_and_next"
    /\ pc = "done"
    /\ elements = <<w1, w2, EmptyStr, w3>>
    /\ prev_tokens = <<bos, w1, EmptyStr, bos>>
    /\ next_tokens = <<w2, eos, EmptyStr, eos>>

\* C2: when extract_previous_and_next has gone through its input, every
\* empty row has the empty string as its previous value, wherever the empty
\* row is: also at the last position and when it is the only row.
C2_BlankRowPreviousEmpty ==
    ExtractFinished =>
        \A i \in Rows : BlankAt(i) => prev_tokens[i] = EmptyStr

\* C3: when extract_previous_and_next has gone through its input, every
\* empty row has the empty string as its next value, wherever the empty row
\* is: also at the first position and in a run of empty rows.
C3_BlankRowNextEmpty ==
    ExtractFinished =>
        \A i \in Rows : BlankAt(i) => next_tokens[i] = EmptyStr

---------------------------------------------------------------------------
(* Claims about generate_pos_category.                                     *)

T(a) == <<a>>
JJ == <<"J", "J">>
RB == <<"R", "B">>
NNc == <<"N", "N">>
VBc == <<"V", "B">>
PRP == <<"P", "R", "P">>

\* The category the rules give a tag, written out from the rules.
ExpectedCategory(tag) ==
    IF tag = <<>> THEN ""
    ELSE IF tag \in {JJ, JJ \o T("R"), JJ \o T("S")} THEN "ADJ"
    ELSE IF tag \in {NNc, NNc \o T("S"), NNc \o T("P"), NNc \o <<"P", "S">>} THEN "NN"
    ELSE IF tag \in {RB, RB \o T("R"), RB \o T("S")} THEN "ADV"
    ELSE IF tag \in {PRP, PRP \o T("$")} THEN "PRO"
    ELSE IF tag \in {VBc \o x : x \in {<<>>, T("D"), T("G"), T("N"), T("P"), T("Z")}}
         THEN "VERB"
    ELSE IF Head(tag) \in punctuation THEN "PUNCT"
    ELSE "OTH"

---------------------------------------------------------------------------
(* Claims about write_features.                                            *)

DerivedColumns ==
    {"pos_category", "prev_token", "next_token", "prev_lemma", "next_lemma",
     "has_affix", "affix", "base_is_word", "base"}

\* C6: every derived sequence is as long as its input, empty rows counted,
\* and entry i belongs to row i: each list grows by one entry per row gone
\* through; the lists a function returns are as long as the list it was
\* given (none for no input); and the columns write_features puts in the
\* frame are all as long as the table, with the empty cells of pos_category,
\* has_affix and base_is_word on the empty rows.
C6_DerivedSequencesAligned ==
    /\ pc = "extract" =>
          /\ Len(prev_tokens) = position_index
          /\ Len(next_tokens) = position_index
    /\ ExtractFinished =>
          /\ Len(prev_tokens) = Len(elements)
          /\ Len(next_tokens) = Len(elements)
    /\ pc = "pos" => Len(pos_list) = pos_index
    /\ PosFinished => Len(pos_list) = Len(pos_tags)
    /\ AffixFinished =>
          /\ Len(has_affix) = Len(lemmas)
          /\ Len(affix) = Len(lemmas)
          /\ Len(base_is_word) = Len(lemmas)
          /\ Len(base) = Len(lemmas)
    /\ pc # "raised"
    /\ stage \in {"frame", "written"} =>
          /\ \A c \in DerivedColumns : Len(features_dict[c]) = Len(input_data)
          /\ \A k \in 1..Len(input_data) :
                LET blank == input_data[k].book = ""
                IN /\ (features_dict.pos_category[k] = "") <=> blank
                   /\ (features_dict.has_affix[k] = "") <=> blank
                   /\ (features_dict.base_is_word[k] = "") <=> blank

C6_Witness ==
    /\ entry = "write_features"
    /\ pc = "done"
    /\ Len(input_data) = MaxRows
    /\ input_data[2].book = ""
    /\ input_data[1].book # ""
    /\ \A c \in DerivedColumns : Len(features_dict[c]) = MaxRows

\* The rows of a table that are not empty lines, in the table's order.
RECURSIVE NonBlankRows(_)
NonBlankRows(table) ==
    IF table = <<>> THEN <<>>
    ELSE IF Head(table).book = "" THEN NonBlankRows(Tail(table))
    ELSE <<Head(table)>> \o NonBlankRows(Tail(table))

BlankCount(table) == Cardinality({k \in 1..Len(table) : table[k].book = ""})

\* C7: write_features writes the rows whose book field is not empty, in the
\* table's order and once each: as many rows as the table has, less its
\* empty rows, and none of the rows written is an empty row.
C7_OutputIsNonBlankRows ==
    (entry = "write_features" /\ pc = "done") =>
        LET kept == NonBlankRows(input_data)
        IN /\ Len(output) = Len(input_data) - BlankCount(input_data)
           /\ Len(output) = Len(kept)
           /\ \A j \in 1..Len(output) :
                 /\ output[j].book # ""
                 /\ output[j].book = kept[j].book
                 /\ output[j].sent_num = kept[j].sent_num
                 /\ output[j].token_num = kept[j].token_num
                 /\ output[j].token = Lower(kept[j].token)
                 /\ output[j].lemma = Lower(kept[j].lemma)
                 /\ output[j].pos_tag = kept[j].pos_tag
                 /\ output[j].gold_label = kept[j].gold_label

C7_Witness ==
    /\ entry = "write_features"
    /\ pc = "done"
    /\ Len(input_data) = MaxRows
    /\ BlankCount(input_data) = 1
    /\ Len(output) = MaxRows - 1

---------------------------------------------------------------------------
(* Claims about get_affixal_and_base_features.                             *)

\* A lemma that is not an empty line is being analysed.
InLemma ==
    /\ pc \in {"for_suffix", "if_not_has_affix", "for_prefix", "append"}
    /\ lemma # EmptyStr

\* The members the scans of this lemma have visited.
visited_suffixes == neg_suffix \ suffix_left
visited_prefixes == neg_prefix \ prefix_left

\* The lemma without its trailing suffix, without its leading prefix.
StripSuffix(lem, suf) == SubSeq(lem, 1, Len(lem) - Len(suf))
StripPrefix(lem, pre) == SubSeq(lem, Len(pre) + 1, Len(lem))

\* C4: a lemma that ends with a suffix of the set (taken here where it is
\* the only member the lemma ends with, so that "that suffix" is one
\* suffix) and is more than 2 characters long without it, is resolved by
\* the suffix pass: has_affix is 1, the affix is that suffix, and no prefix
\* is looked at.
C4_SuffixPathWins ==
    (InLemma /\ pc = "append") =>
        \A s \in neg_suffix :
            ( /\ EndsWith(lemma, s)
              /\ \A t \in neg_suffix \ {s} : ~EndsWith(lemma, t)
              /\ Len(StripSuffix(lemma, s)) > 2 )
            => /\ has_affix_val = "1"
               /\ affix_val = s
               /\ visited_prefixes = {}

\* C10: the stem is the lemma with one occurrence of the affix taken off, so
\* whenever base_is_word is 1 the reported base and affix put together give
\* the lemma again: base + affix when the suffix pass recorded the affix,
\* affix + base when the prefix pass did.
C10_BaseAndAffixGiveLemma ==
    (InLemma /\ pc = "append" /\ base_is_word_val = "1") =>
        IF visited_prefixes = {}
        THEN base_val \o affix_val = lemma
        ELSE affix_val \o base_val = lemma

\* C9 as claimed: in each pass only the first member that matches the lemma
\* is evaluated and there is no fallback, stated by what it leaves in the
\* result: once the scan has visited a suffix the lemma ends with whose stem
\* is at most 2 characters long, no affix is recorded by the suffix pass;
\* once it has visited a prefix the lemma starts with whose stem is at most 3
\* characters long, the scan has stopped there and the lemma has no affix.
C9_FirstMatchOnly ==
    InLemma =>
        /\ (\E s \in visited_suffixes :
               EndsWith(lemma, s) /\ Len(StripSuffix(lemma, s)) <= 2)
           => (visited_prefixes = {} => has_affix_val = "0")
        /\ (\E p \in visited_prefixes :
               StartsWith(lemma, p) /\ Len(StripPrefix(lemma, p)) <= 3)
           => has_affix_val = "0"

\* The member matches and the stem the code computes is long enough.
SuffixCommits(lem, suf) ==
    EndsWith(lem, suf) /\ Len(ReplaceAll(lem, suf)) > 2
PrefixCommits(lem, pre) ==
    StartsWith(lem, pre) /\ Len(ReplaceFirst(lem, pre)) > 3

\* C9 as amended: each pass ends at the first member visited that matches
\* AND whose stem, as the code computes it, passes the length check; a
\* member that matches with too short a stem records nothing and does not
\* end the scan, the members left are still tried.
C9_ScanEndsAtFirstCommit ==
    InLemma =>
        /\ pc \in {"for_suffix", "if_not_has_affix"} =>
              /\ (has_affix_val = "1") <=>
                     (\E s \in visited_suffixes : SuffixCommits(lemma, s))
              /\ has_affix_val = "1" =>
                     /\ affix_val \in visited_suffixes
                     /\ \A s \in visited_suffixes :
                            SuffixCommits(lemma, s) <=> s = affix_val
              /\ (pc = "if_not_has_affix" /\ has_affix_val = "0") =>
                     suffix_left = {}
              /\ (pc = "for_suffix") => has_affix_val = "0"
        /\ (pc \in {"for_prefix", "append"} /\ visited_prefixes # {}) =>
              /\ \A s \in visited_suffixes : ~SuffixCommits(lemma, s)
              /\ (has_affix_val = "1") <=>
                     (\E p \in visited_prefixes : PrefixCommits(lemma, p))
              /\ has_affix_val = "1" =>
                     /\ affix_val \in visited_prefixes
                     /\ \A p \in visited_prefixes :
                            PrefixCommits(lemma, p) <=> p = affix_val
              /\ (pc = "append" /\ has_affix_val = "0") => prefix_left = {}
              /\ (pc = "for_prefix") => has_affix_val = "0"

\* A suffix that matched with too short a stem was passed over and a suffix
\* visited after it was recorded.
C9_Witness ==
    /\ InLemma
    /\ pc = "if_not_has_affix"
    /\ has_affix_val = "1"
    /\ \E s \in visited_suffixes :
          /\ s # affix_val
          /\ EndsWith(lemma, s)
          /\ Len(StripSuffix(lemma, s)) <= 2

\* No member of the set is the end (the start) of another member.
SuffixFree(S) == \A a \in S, b \in S : a # b => ~EndsWith(a, b)
PrefixFree(S) == \A a \in S, b \in S : a # b => ~StartsWith(a, b)

\* C5 as claimed: a second run on the same lemma, affix sets and vocabulary
\* gives what the first run gave, whatever order either run visited the
\* sets in.
C5_SecondRunSame ==
    (pc = "done" /\ run = 2) => Result = first_run

\* C5 as amended: the second run gives what the first run gave when no
\* member of the suffix set is the end of another member and no member of
\* the prefix set is the start of another, as in the sets of main.
C5_SecondRunSameNoNesting ==
    (pc = "done" /\ run = 2 /\ SuffixFree(neg_suffix) /\ PrefixFree(neg_prefix))
        => Result = first_run

C5_Witness ==
    /\ pc = "done" /\ run = 2
    /\ entry = "get_affixal_and_base_features"
    /\ neg_suffix = main_neg_suffix /\ neg_prefix = main_neg_prefix
    /\ SuffixFree(neg_suffix) /\ PrefixFree(neg_prefix)
    /\ first_run = <<<<"1">>, <<less>>, <<"1">>, <<<<"a", "a", "e">>>>>>
    /\ Result = first_run

===========================================================================
